---- MODULE Spec2Model ----
(***************************************************************************)
(* Model of src/device/servo.cpp: an STM32F4 program that configures the   *)
(* clock tree, routes PA6 to TIM3 channel 1, starts PWM and then cycles    *)
(* the channel's compare register through three values with one-second     *)
(* delays.                                                                 *)
(*                                                                         *)
(* One action per statement group of main and of the three configuration   *)
(* functions it calls.  The program counter pc names the next step.  A     *)
(* HAL call that returns HAL_StatusTypeDef returns any of the four status  *)
(* values; the source stores none of them.  The register variables hold    *)
(* the configuration the program requests from the HAL.                    *)
(***************************************************************************)
EXTENDS Integers, Sequences, FiniteSets, TLC

VARIABLES
    pc,          \* the next step of main (a label of InitLabels or LoopLabels)
    status,      \* status returned by each status-returning HAL call
    halInit,     \* HAL_Init has run
    rcc,         \* clock tree and peripheral clock gates
    pa6,         \* configuration of pin PA6
    tim3,        \* TIM3 time base and channel-1 configuration
    ccr1,        \* TIM3 channel-1 compare register (TIM3->CCR1)
    lastBy,      \* the code that wrote the value ccr1 holds
    held,        \* ms of HAL_Delay elapsed since ccr1 was last written
    initLog,     \* the initialisation steps executed, in order
    ccrWriters,  \* the code places that have written ccr1
    ccrReaders,  \* the code places that have read ccr1
    trans,       \* the last change of ccr1 made while PWM output was on
    obsLog,      \* ccr1 as observed at the end of each delay (a window)
    firstObs,    \* the first value so observed (0: none yet)
    cnt,         \* TIM3 counter (TIM3->CNT)
    out          \* level of the channel-1 output (OC1REF), 0 or 1

vars ==
    << pc, status, halInit, rcc, pa6, tim3, ccr1, lastBy, held, initLog,
       ccrWriters, ccrReaders, trans, obsLog, firstObs, cnt, out >>

mainVars ==
    << pc, status, halInit, rcc, pa6, tim3, lastBy, held, initLog,
       ccrWriters, ccrReaders, trans, obsLog, firstObs >>

----------------------------------------------------------------------------
(* Bounds of the model *)

\* length of the window of observations kept in obsLog
MaxLog == 6

\* how far above the reload value the compare values of SpecPwm go
MaxOver == 2

----------------------------------------------------------------------------
(* Constants of the program *)

\* RCC_OSCILLATORTYPE_HSI: the 16 MHz internal oscillator
HSI_VALUE == 16000000

PLLM == 16

PLLN == 336

\* RCC_PLLP_DIV4
PLLP == 4

PLLQ == 7

\* RCC_SYSCLK_DIV1
AHBCLKDivider == 1

\* RCC_HCLK_DIV2
APB1CLKDivider == 2

\* RCC_HCLK_DIV1
APB2CLKDivider == 1

\* FLASH_LATENCY_2
FLASH_LATENCY == 2

\* the prescaler register with the "- 1" forgotten: the counter divides by 85
PrescalerNoMinusOne == 84 + 0

\* htim3.Init.Prescaler
Prescaler == 84 - 1

\* htim3.Init.Period
Period == 20000 - 1

\* sConfigOC.Pulse
Pulse == 75

\* the three values of the control loop
MIN == 50

CENTER == 75

MAX == 100

\* HAL_StatusTypeDef
HALStatus == {"HAL_OK", "HAL_ERROR", "HAL_BUSY", "HAL_TIMEOUT"}

\* the HAL calls of the program that return a status
StatusCalls ==
    { "HAL_RCC_OscConfig", "HAL_RCC_ClockConfig", "HAL_TIM_PWM_Init",
      "HAL_TIM_PWM_ConfigChannel", "HAL_TIM_PWM_Start" }

\* the steps of the while (1) body
LoopLabels ==
    { "SET_COMPARE_MIN", "HAL_Delay_MIN", "SET_COMPARE_CENTER",
      "HAL_Delay_CENTER", "SET_COMPARE_MAX", "HAL_Delay_MAX" }

\* the steps before the loop
InitLabels ==
    { "HAL_Init", "PWR_CLK_ENABLE", "HAL_RCC_OscConfig", "HAL_RCC_ClockConfig",
      "GPIOA_CLK_ENABLE", "HAL_GPIO_Init", "TIM3_CLK_ENABLE", "HAL_TIM_PWM_Init",
      "HAL_TIM_PWM_ConfigChannel", "HAL_TIM_PWM_Start" }

----------------------------------------------------------------------------
(* Control flow of main.  st is the status the step's HAL call returned    *)
(* ("void" for a step that returns none); the source never looks at it.    *)

\* main with every status checked: a failure ends in an error handler
NextPcChecked(label, st) ==
    IF st \notin {"HAL_OK", "void"} THEN "Error_Handler"
    ELSE CASE label = "HAL_Init"                  -> "PWR_CLK_ENABLE"
           [] label = "PWR_CLK_ENABLE"            -> "HAL_RCC_OscConfig"
           [] label = "HAL_RCC_OscConfig"         -> "HAL_RCC_ClockConfig"
           [] label = "HAL_RCC_ClockConfig"       -> "GPIOA_CLK_ENABLE"
           [] label = "GPIOA_CLK_ENABLE"          -> "HAL_GPIO_Init"
           [] label = "HAL_GPIO_Init"             -> "TIM3_CLK_ENABLE"
           [] label = "TIM3_CLK_ENABLE"           -> "HAL_TIM_PWM_Init"
           [] label = "HAL_TIM_PWM_Init"          -> "HAL_TIM_PWM_ConfigChannel"
           [] label = "HAL_TIM_PWM_ConfigChannel" -> "HAL_TIM_PWM_Start"
           [] label = "HAL_TIM_PWM_Start"         -> "SET_COMPARE_MIN"
           [] label = "SET_COMPARE_MIN"           -> "HAL_Delay_MIN"
           [] label = "HAL_Delay_MIN"             -> "SET_COMPARE_CENTER"
           [] label = "SET_COMPARE_CENTER"        -> "HAL_Delay_CENTER"
           [] label = "HAL_Delay_CENTER"          -> "SET_COMPARE_MAX"
           [] label = "SET_COMPARE_MAX"           -> "HAL_Delay_MAX"
           [] label = "HAL_Delay_MAX"             -> "SET_COMPARE_MIN"
           [] OTHER                               -> "Return"

\* main with the loop running once: after the last delay main returns
NextPcLoopOnce(label, st) ==
    CASE label = "HAL_Init"                  -> "PWR_CLK_ENABLE"
      [] label = "PWR_CLK_ENABLE"            -> "HAL_RCC_OscConfig"
      [] label = "HAL_RCC_OscConfig"         -> "HAL_RCC_ClockConfig"
      [] label = "HAL_RCC_ClockConfig"       -> "GPIOA_CLK_ENABLE"
      [] label = "GPIOA_CLK_ENABLE"          -> "HAL_GPIO_Init"
      [] label = "HAL_GPIO_Init"             -> "TIM3_CLK_ENABLE"
      [] label = "TIM3_CLK_ENABLE"           -> "HAL_TIM_PWM_Init"
      [] label = "HAL_TIM_PWM_Init"          -> "HAL_TIM_PWM_ConfigChannel"
      [] label = "HAL_TIM_PWM_ConfigChannel" -> "HAL_TIM_PWM_Start"
      [] label = "HAL_TIM_PWM_Start"         -> "SET_COMPARE_MIN"
      [] label = "SET_COMPARE_MIN"           -> "HAL_Delay_MIN"
      [] label = "HAL_Delay_MIN"             -> "SET_COMPARE_CENTER"
      [] label = "SET_COMPARE_CENTER"        -> "HAL_Delay_CENTER"
      [] label = "HAL_Delay_CENTER"          -> "SET_COMPARE_MAX"
      [] label = "SET_COMPARE_MAX"           -> "HAL_Delay_MAX"
      [] OTHER                               -> "Return"

\* main with the initialisation inside the loop: the last delay leads back
\* to HAL_Init
NextPcInitInLoop(label, st) ==
    CASE label = "HAL_Init"                  -> "PWR_CLK_ENABLE"
      [] label = "PWR_CLK_ENABLE"            -> "HAL_RCC_OscConfig"
      [] label = "HAL_RCC_OscConfig"         -> "HAL_RCC_ClockConfig"
      [] label = "HAL_RCC_ClockConfig"       -> "GPIOA_CLK_ENABLE"
      [] label = "GPIOA_CLK_ENABLE"          -> "HAL_GPIO_Init"
      [] label = "HAL_GPIO_Init"             -> "TIM3_CLK_ENABLE"
      [] label = "TIM3_CLK_ENABLE"           -> "HAL_TIM_PWM_Init"
      [] label = "HAL_TIM_PWM_Init"          -> "HAL_TIM_PWM_ConfigChannel"
      [] label = "HAL_TIM_PWM_ConfigChannel" -> "HAL_TIM_PWM_Start"
      [] label = "HAL_TIM_PWM_Start"         -> "SET_COMPARE_MIN"
      [] label = "SET_COMPARE_MIN"           -> "HAL_Delay_MIN"
      [] label = "HAL_Delay_MIN"             -> "SET_COMPARE_CENTER"
      [] label = "SET_COMPARE_CENTER"        -> "HAL_Delay_CENTER"
      [] label = "HAL_Delay_CENTER"          -> "SET_COMPARE_MAX"
      [] label = "SET_COMPARE_MAX"           -> "HAL_Delay_MAX"
      [] label = "HAL_Delay_MAX"             -> "HAL_Init"
      [] OTHER                               -> "Return"

\* main, lines 10-33, with SystemClock_Config, MX_GPIO_Init and MX_TIM3_Init
\* inlined at their calls
NextPc(label, st) ==
    CASE label = "HAL_Init"                  -> "PWR_CLK_ENABLE"
      [] label = "PWR_CLK_ENABLE"            -> "HAL_RCC_OscConfig"
      [] label = "HAL_RCC_OscConfig"         -> "HAL_RCC_ClockConfig"
      [] label = "HAL_RCC_ClockConfig"       -> "GPIOA_CLK_ENABLE"
      [] label = "GPIOA_CLK_ENABLE"          -> "HAL_GPIO_Init"
      [] label = "HAL_GPIO_Init"             -> "TIM3_CLK_ENABLE"
      [] label = "TIM3_CLK_ENABLE"           -> "HAL_TIM_PWM_Init"
      [] label = "HAL_TIM_PWM_Init"          -> "HAL_TIM_PWM_ConfigChannel"
      [] label = "HAL_TIM_PWM_ConfigChannel" -> "HAL_TIM_PWM_Start"
      [] label = "HAL_TIM_PWM_Start"         -> "SET_COMPARE_MIN"
      [] label = "SET_COMPARE_MIN"           -> "HAL_Delay_MIN"
      [] label = "HAL_Delay_MIN"             -> "SET_COMPARE_CENTER"
      [] label = "SET_COMPARE_CENTER"        -> "HAL_Delay_CENTER"
      [] label = "HAL_Delay_CENTER"          -> "SET_COMPARE_MAX"
      [] label = "SET_COMPARE_MAX"           -> "HAL_Delay_MAX"
      [] label = "HAL_Delay_MAX"             -> "SET_COMPARE_MIN"
      [] OTHER                               -> "Return"

\* the loop writing CENTER and MAX in the wrong order
LoopCompareSwapped(label) ==
    CASE label = "SET_COMPARE_MIN"    -> MIN
      [] label = "SET_COMPARE_CENTER" -> MAX
      [] label = "SET_COMPARE_MAX"    -> CENTER

\* the value each __HAL_TIM_SET_COMPARE of the loop writes
LoopCompare(label) ==
    CASE label = "SET_COMPARE_MIN"    -> MIN
      [] label = "SET_COMPARE_CENTER" -> CENTER
      [] label = "SET_COMPARE_MAX"    -> MAX

\* the loop with one delay of 100 ms
DelayMsShort(label) ==
    CASE label = "HAL_Delay_MIN"    -> 1000
      [] label = "HAL_Delay_CENTER" -> 100
      [] label = "HAL_Delay_MAX"    -> 1000

\* the argument of each HAL_Delay of the loop, in ms
DelayMs(label) ==
    CASE label = "HAL_Delay_MIN"    -> 1000
      [] label = "HAL_Delay_CENTER" -> 1000
      [] label = "HAL_Delay_MAX"    -> 1000

----------------------------------------------------------------------------
(* Timer hardware as configured by MX_TIM3_Init *)

\* an output that is still high when the counter equals the compare value
PwmOutInclusive(counter, compare) ==
    IF counter <= compare THEN 1 ELSE 0

\* TIM_OCMODE_PWM1, TIM_OCPOLARITY_HIGH, TIM_COUNTERMODE_UP: the output is
\* high while the counter is below the compare value
PwmOut(counter, compare) ==
    IF counter < compare THEN 1 ELSE 0

\* system clock from the clock tree in rcc
SysClkHz ==
    IF rcc.sysclkSource = "PLLCLK"
    THEN ((HSI_VALUE \div rcc.pllm) * rcc.plln) \div rcc.pllp
    ELSE HSI_VALUE

\* APB1 clock
Pclk1Hz ==
    (SysClkHz \div rcc.ahbDiv) \div rcc.apb1Div

\* TIM3 input clock: the APB1 timers run at twice PCLK1 unless APB1 is
\* undivided
TimClkHz ==
    IF rcc.apb1Div = 1 THEN Pclk1Hz ELSE 2 * Pclk1Hz

\* counter tick rate produced by the prescaler
TickRateHz ==
    TimClkHz \div (tim3.psc + 1)

\* length of one PWM frame in microseconds: ticks of the frame over the
\* tick rate in kHz, times 1000 (kept within 32-bit integers)
FramePeriodUs ==
    ((tim3.arr + 1) * 1000) \div (TickRateHz \div 1000)

\* PWM frequency in Hz
PwmFreqHz ==
    TickRateHz \div (tim3.arr + 1)

\* high time of a compare value in microseconds
PulseUs(compare) ==
    (compare * 1000000) \div TickRateHz

\* duty cycle of a compare value in tenths of a percent
DutyPermille(compare) ==
    (compare * 1000) \div (tim3.arr + 1)

----------------------------------------------------------------------------
(* State at reset and the configurations the program requests *)

\* clock tree after reset: HSI is the system clock, every gate is off
RccReset ==
    [ pwrClk |-> FALSE, vos |-> "reset", gpioaClk |-> FALSE, tim3Clk |-> FALSE,
      hsiOn |-> TRUE, pllOn |-> FALSE, pllSource |-> "HSI",
      pllm |-> 16, plln |-> 192, pllp |-> 2, pllq |-> 4,
      sysclkSource |-> "HSI", ahbDiv |-> 1, apb1Div |-> 1, apb2Div |-> 1,
      flashLatency |-> 0 ]

\* pin PA6 after reset
Pa6Reset ==
    [ mode |-> "INPUT", pull |-> "NOPULL", speed |-> "LOW", alternate |-> "AF0" ]

\* GPIO_InitStruct of MX_GPIO_Init
Pa6Config ==
    [ mode |-> "AF_PP", pull |-> "NOPULL", speed |-> "LOW", alternate |-> "AF2_TIM3" ]

\* TIM3 after reset
Tim3Reset ==
    [ baseInit |-> FALSE, psc |-> 0, arr |-> 65535, counterMode |-> "UP",
      clockDivision |-> 1, chInit |-> FALSE, ocMode |-> "FROZEN",
      ocPolarity |-> "HIGH", ocFast |-> FALSE, cc1e |-> FALSE ]

\* no change of ccr1 recorded yet
NoTrans ==
    [ from |-> 0, fromBy |-> "none", heldMs |-> 0, to |-> 0 ]

\* obsLog keeps the last MaxLog observations
Window(s) ==
    IF Len(s) > MaxLog THEN Tail(s) ELSE s

Init ==
    /\ pc = "HAL_Init"
    /\ status = [c \in StatusCalls |-> "not_called"]
    /\ halInit = FALSE
    /\ rcc = RccReset
    /\ pa6 = Pa6Reset
    /\ tim3 = Tim3Reset
    /\ ccr1 = 0
    /\ lastBy = "reset"
    /\ held = 0
    /\ initLog = << >>
    /\ ccrWriters = {}
    /\ ccrReaders = {}
    /\ trans = NoTrans
    /\ obsLog = << >>
    /\ firstObs = 0
    /\ cnt = 0
    /\ out = 0

----------------------------------------------------------------------------
(* Steps of the program *)

\* an initialisation step: advance pc, log the step
InitStep(label, st) ==
    /\ pc = label
    /\ pc' = NextPc(label, st)
    /\ initLog' = Append(initLog, label)

\* a write of ccr1 by the code place `by`
WriteCompare(v, by) ==
    /\ ccr1' = v
    /\ lastBy' = by
    /\ held' = 0
    /\ ccrWriters' = ccrWriters \cup {by}
    /\ trans' = IF tim3.cc1e
                THEN [ from |-> ccr1, fromBy |-> lastBy, heldMs |-> held, to |-> v ]
                ELSE trans

\* main line 12
HAL_Init ==
    /\ InitStep("HAL_Init", "void")
    /\ halInit' = TRUE
    /\ UNCHANGED << status, rcc, pa6, tim3, ccr1, lastBy, held, ccrWriters,
                    ccrReaders, trans, obsLog, firstObs, cnt, out >>

\* SystemClock_Config lines 42-43
PWR_CLK_ENABLE ==
    /\ InitStep("PWR_CLK_ENABLE", "void")
    /\ rcc' = [rcc EXCEPT !.pwrClk = TRUE, !.vos = "SCALE1"]
    /\ UNCHANGED << status, halInit, pa6, tim3, ccr1, lastBy, held, ccrWriters,
                    ccrReaders, trans, obsLog, firstObs, cnt, out >>

\* SystemClock_Config lines 45-54; the status is discarded
HAL_RCC_OscConfig ==
    \E st \in HALStatus :
        /\ InitStep("HAL_RCC_OscConfig", st)
        /\ status' = [status EXCEPT !["HAL_RCC_OscConfig"] = st]
        /\ rcc' = [rcc EXCEPT !.hsiOn = TRUE, !.pllOn = TRUE, !.pllSource = "HSI",
                              !.pllm = PLLM, !.plln = PLLN, !.pllp = PLLP,
                              !.pllq = PLLQ]
        /\ UNCHANGED << halInit, pa6, tim3, ccr1, lastBy, held, ccrWriters,
                        ccrReaders, trans, obsLog, firstObs, cnt, out >>

\* SystemClock_Config lines 56-62; the status is discarded
HAL_RCC_ClockConfig ==
    \E st \in HALStatus :
        /\ InitStep("HAL_RCC_ClockConfig", st)
        /\ status' = [status EXCEPT !["HAL_RCC_ClockConfig"] = st]
        /\ rcc' = [rcc EXCEPT !.sysclkSource = "PLLCLK",
                              !.ahbDiv = AHBCLKDivider,
                              !.apb1Div = APB1CLKDivider,
                              !.apb2Div = APB2CLKDivider,
                              !.flashLatency = FLASH_LATENCY]
        /\ UNCHANGED << halInit, pa6, tim3, ccr1, lastBy, held, ccrWriters,
                        ccrReaders, trans, obsLog, firstObs, cnt, out >>

\* MX_GPIO_Init with the clock enable left out
GPIOA_CLK_ENABLE_Missing ==
    /\ InitStep("GPIOA_CLK_ENABLE", "void")
    /\ UNCHANGED << rcc, status, halInit, pa6, tim3, ccr1, lastBy, held,
                    ccrWriters, ccrReaders, trans, obsLog, firstObs, cnt, out >>

\* MX_GPIO_Init line 67
GPIOA_CLK_ENABLE ==
    /\ InitStep("GPIOA_CLK_ENABLE", "void")
    /\ rcc' = [rcc EXCEPT !.gpioaClk = TRUE]
    /\ UNCHANGED << status, halInit, pa6, tim3, ccr1, lastBy, held, ccrWriters,
                    ccrReaders, trans, obsLog, firstObs, cnt, out >>

\* MX_GPIO_Init lines 68-75
HAL_GPIO_Init ==
    /\ InitStep("HAL_GPIO_Init", "void")
    /\ pa6' = Pa6Config
    /\ UNCHANGED << status, halInit, rcc, tim3, ccr1, lastBy, held, ccrWriters,
                    ccrReaders, trans, obsLog, firstObs, cnt, out >>

\* MX_TIM3_Init line 80
TIM3_CLK_ENABLE ==
    /\ InitStep("TIM3_CLK_ENABLE", "void")
    /\ rcc' = [rcc EXCEPT !.tim3Clk = TRUE]
    /\ UNCHANGED << status, halInit, pa6, tim3, ccr1, lastBy, held, ccrWriters,
                    ccrReaders, trans, obsLog, firstObs, cnt, out >>

\* MX_TIM3_Init lines 84-89; the status is discarded
HAL_TIM_PWM_Init ==
    \E st \in HALStatus :
        /\ InitStep("HAL_TIM_PWM_Init", st)
        /\ status' = [status EXCEPT !["HAL_TIM_PWM_Init"] = st]
        /\ tim3' = [tim3 EXCEPT !.baseInit = TRUE, !.psc = Prescaler,
                                !.arr = Period, !.counterMode = "UP",
                                !.clockDivision = 1]
        /\ UNCHANGED << halInit, rcc, pa6, ccr1, lastBy, held, ccrWriters,
                        ccrReaders, trans, obsLog, firstObs, cnt, out >>

\* MX_TIM3_Init lines 91-95: the channel configuration writes the starting
\* pulse into the compare register; the status is discarded
HAL_TIM_PWM_ConfigChannel ==
    \E st \in HALStatus :
        /\ InitStep("HAL_TIM_PWM_ConfigChannel", st)
        /\ status' = [status EXCEPT !["HAL_TIM_PWM_ConfigChannel"] = st]
        /\ tim3' = [tim3 EXCEPT !.chInit = TRUE, !.ocMode = "PWM1",
                                !.ocPolarity = "HIGH", !.ocFast = FALSE]
        /\ WriteCompare(Pulse, "MX_TIM3_Init")
        /\ UNCHANGED << halInit, rcc, pa6, ccrReaders, obsLog, firstObs, cnt, out >>

\* main line 17; the status is discarded
HAL_TIM_PWM_Start ==
    \E st \in HALStatus :
        /\ InitStep("HAL_TIM_PWM_Start", st)
        /\ status' = [status EXCEPT !["HAL_TIM_PWM_Start"] = st]
        /\ tim3' = [tim3 EXCEPT !.cc1e = TRUE]
        /\ out' = PwmOut(cnt, ccr1)
        /\ UNCHANGED << halInit, rcc, pa6, ccr1, lastBy, held, ccrWriters,
                        ccrReaders, trans, obsLog, firstObs, cnt >>

\* a __HAL_TIM_SET_COMPARE of the loop
SetCompare(label) ==
    /\ pc = label
    /\ pc' = NextPc(label, "void")
    /\ WriteCompare(LoopCompare(label), "main_loop")
    /\ out' = IF tim3.cc1e THEN PwmOut(cnt, ccr1') ELSE out
    /\ UNCHANGED << status, halInit, rcc, pa6, tim3, initLog, ccrReaders,
                    obsLog, firstObs, cnt >>

\* a HAL_Delay of the loop: the counter runs on for the ticks of the delay
\* and the compare register is observed when it ends
Delay(label) ==
    /\ pc = label
    /\ pc' = NextPc(label, "void")
    /\ held' = held + DelayMs(label)
    /\ obsLog' = Window(Append(obsLog, ccr1))
    /\ firstObs' = IF firstObs = 0 THEN ccr1 ELSE firstObs
    /\ cnt' = (cnt + DelayMs(label) * (TickRateHz \div 1000)) % (tim3.arr + 1)
    /\ out' = IF tim3.cc1e THEN PwmOut(cnt', ccr1) ELSE out
    /\ UNCHANGED << status, halInit, rcc, pa6, tim3, ccr1, lastBy, initLog,
                    ccrWriters, ccrReaders, trans >>

\* the first write of the loop done as a read-modify-write of the register
SET_COMPARE_MIN_ReadModifyWrite ==
    /\ pc = "SET_COMPARE_MIN"
    /\ pc' = NextPc("SET_COMPARE_MIN", "void")
    /\ ccrReaders' = ccrReaders \cup {"main_loop"}
    /\ WriteCompare(ccr1 - ccr1 + LoopCompare("SET_COMPARE_MIN"), "main_loop")
    /\ out' = IF tim3.cc1e THEN PwmOut(cnt, ccr1') ELSE out
    /\ UNCHANGED << status, halInit, rcc, pa6, tim3, initLog, obsLog, firstObs,
                    cnt >>

\* main line 22
SET_COMPARE_MIN ==
    SetCompare("SET_COMPARE_MIN")

\* main line 23
HAL_Delay_MIN ==
    Delay("HAL_Delay_MIN")

\* main line 26
SET_COMPARE_CENTER ==
    SetCompare("SET_COMPARE_CENTER")

\* main line 27
HAL_Delay_CENTER ==
    Delay("HAL_Delay_CENTER")

\* main line 30
SET_COMPARE_MAX ==
    SetCompare("SET_COMPARE_MAX")

\* main line 31
HAL_Delay_MAX ==
    Delay("HAL_Delay_MAX")

Next ==
    \/ HAL_Init
    \/ PWR_CLK_ENABLE
    \/ HAL_RCC_OscConfig
    \/ HAL_RCC_ClockConfig
    \/ GPIOA_CLK_ENABLE
    \/ HAL_GPIO_Init
    \/ TIM3_CLK_ENABLE
    \/ HAL_TIM_PWM_Init
    \/ HAL_TIM_PWM_ConfigChannel
    \/ HAL_TIM_PWM_Start
    \/ SET_COMPARE_MIN
    \/ HAL_Delay_MIN
    \/ SET_COMPARE_CENTER
    \/ HAL_Delay_CENTER
    \/ SET_COMPARE_MAX
    \/ HAL_Delay_MAX

Spec ==
    Init /\ [][Next]_vars

\* the processor keeps executing and the SysTick behind HAL_Delay keeps
\* counting: a step that can be taken is taken
SpecFair ==
    Init /\ [][Next]_vars /\ WF_vars(Next)

----------------------------------------------------------------------------
(* The configured PWM channel under arbitrary compare values: the          *)
(* operation "set pulse width" applied to the timer that main has          *)
(* configured and started.                                                 *)

\* the compare values tried: zero, the values of the loop, and the values
\* around the reload value
CompareInputs ==
    {0, MIN, CENTER, MAX} \cup ((Period - 1) .. (Period + MaxOver))

\* the state main has built when it enters the loop, every call having
\* succeeded, with the free-running counter at any point of its frame
InitPwm ==
    /\ pc = "SET_COMPARE_MIN"
    /\ status = [c \in StatusCalls |-> "HAL_OK"]
    /\ halInit = TRUE
    /\ rcc = [ pwrClk |-> TRUE, vos |-> "SCALE1", gpioaClk |-> TRUE,
               tim3Clk |-> TRUE, hsiOn |-> TRUE, pllOn |-> TRUE,
               pllSource |-> "HSI", pllm |-> PLLM, plln |-> PLLN, pllp |-> PLLP,
               pllq |-> PLLQ, sysclkSource |-> "PLLCLK",
               ahbDiv |-> AHBCLKDivider, apb1Div |-> APB1CLKDivider,
               apb2Div |-> APB2CLKDivider, flashLatency |-> FLASH_LATENCY ]
    /\ pa6 = Pa6Config
    /\ tim3 = [ baseInit |-> TRUE, psc |-> Prescaler, arr |-> Period,
                counterMode |-> "UP", clockDivision |-> 1, chInit |-> TRUE,
                ocMode |-> "PWM1", ocPolarity |-> "HIGH", ocFast |-> FALSE,
                cc1e |-> TRUE ]
    /\ ccr1 = Pulse
    /\ lastBy = "MX_TIM3_Init"
    /\ held = 0
    /\ initLog = << "HAL_Init", "PWR_CLK_ENABLE", "HAL_RCC_OscConfig",
                    "HAL_RCC_ClockConfig", "GPIOA_CLK_ENABLE", "HAL_GPIO_Init",
                    "TIM3_CLK_ENABLE", "HAL_TIM_PWM_Init",
                    "HAL_TIM_PWM_ConfigChannel", "HAL_TIM_PWM_Start" >>
    /\ ccrWriters = {"MX_TIM3_Init"}
    /\ ccrReaders = {}
    /\ trans = NoTrans
    /\ obsLog = << >>
    /\ firstObs = 0
    /\ cnt \in 0 .. Period
    /\ out = PwmOut(cnt, ccr1)

\* __HAL_TIM_SET_COMPARE(&htim3, TIM_CHANNEL_1, ticks): the value is written
\* as given, with no check and no clamping
SetPulseWidth ==
    \E ticks \in CompareInputs :
        /\ tim3.cc1e
        /\ ccr1' = ticks
        /\ out' = PwmOut(cnt, ticks)
        /\ UNCHANGED << mainVars, cnt >>

\* one tick of the up-counter: it counts from 0 to the reload value and
\* starts again
TimerTick ==
    /\ tim3.cc1e
    /\ cnt' = (cnt + 1) % (tim3.arr + 1)
    /\ out' = PwmOut(cnt', ccr1)
    /\ UNCHANGED << mainVars, ccr1 >>

NextPwm ==
    \/ SetPulseWidth
    \/ TimerTick

SpecPwm ==
    InitPwm /\ [][NextPwm]_vars

----------------------------------------------------------------------------
(* Properties *)

\* the successor of a position in the cycle MIN -> CENTER -> MAX -> MIN
CycleSucc(v) ==
    CASE v = 50  -> 75
      [] v = 75  -> 100
      [] v = 100 -> 50
      [] OTHER   -> -1

\* the function of the source a step belongs to, as main calls it
MainCall(label) ==
    CASE label = "HAL_Init" -> "HAL_Init"
      [] label \in {"PWR_CLK_ENABLE", "HAL_RCC_OscConfig", "HAL_RCC_ClockConfig"}
            -> "SystemClock_Config"
      [] label \in {"GPIOA_CLK_ENABLE", "HAL_GPIO_Init"} -> "MX_GPIO_Init"
      [] label \in {"TIM3_CLK_ENABLE", "HAL_TIM_PWM_Init", "HAL_TIM_PWM_ConfigChannel"}
            -> "MX_TIM3_Init"
      [] label = "HAL_TIM_PWM_Start" -> "HAL_TIM_PWM_Start"
      [] OTHER -> "while"

\* the calls main has made, from the steps logged: consecutive steps of one
\* function are one call
RECURSIVE Calls(_)
Calls(log) ==
    IF Len(log) = 0 THEN << >>
    ELSE LET before == Calls(SubSeq(log, 1, Len(log) - 1))
             f == MainCall(log[Len(log)])
         IN  IF Len(log) > 1 /\ MainCall(log[Len(log) - 1]) = f
             THEN before
             ELSE Append(before, f)

\* s is an initial part of t
IsPrefix(s, t) ==
    /\ Len(s) <= Len(t)
    /\ \A i \in 1 .. Len(s) : s[i] = t[i]

\* how often a step occurs in the log
Occurrences(log, label) ==
    Cardinality({i \in 1 .. Len(log) : log[i] = label})

\* C1: the compare register, observed at the end of each one-second delay,
\* shows 50, 75, 100, 50, 75, 100, ... starting with 50, and from the start
\* of PWM output on it never holds a value other than 50, 75 or 100.
C1_CyclicSequence ==
    /\ tim3.cc1e => ccr1 \in {50, 75, 100}
    /\ firstObs \in {0, 50}
    /\ \A i \in 1 .. Len(obsLog) : obsLog[i] \in {50, 75, 100}
    /\ \A i \in 1 .. (Len(obsLog) - 1) : obsLog[i + 1] = CycleSucc(obsLog[i])
    /\ (pc \in {"SET_COMPARE_MIN", "SET_COMPARE_CENTER", "SET_COMPARE_MAX"}
            /\ obsLog # << >>)
        => ccr1 = obsLog[Len(obsLog)]

\* C1 witness: the loop has run through more than one full cycle.
C1_Witness ==
    /\ Len(obsLog) >= 4
    /\ SubSeq(obsLog, 1, 4) = << 50, 75, 100, 50 >>
    /\ firstObs = 50

\* C2 as stated: every value the compare register takes once PWM output is
\* on, the starting value included, is held for 1000 ms of delay before the
\* next write, and the next value is its successor in the cycle.
C2_Original ==
    trans.fromBy # "none" =>
        /\ trans.heldMs = 1000
        /\ trans.to = CycleSucc(trans.from)
        /\ trans.to # trans.from

\* C2 amended: every value written by the control loop is held for 1000 ms
\* of delay before the next write and is followed by its successor in the
\* cycle; the channel's starting value 75 is overwritten with 50 by the first
\* write of the loop with no delay in between.
C2_Amended ==
    trans.fromBy # "none" =>
        IF trans.fromBy = "main_loop"
        THEN /\ trans.heldMs = 1000
             /\ trans.to = CycleSucc(trans.from)
             /\ trans.to # trans.from
        ELSE /\ trans.fromBy = "MX_TIM3_Init"
             /\ trans.from = 75
             /\ trans.heldMs = 0
             /\ trans.to = 50

\* C2 witness: the loop has wrapped around, MAX being replaced by MIN after
\* its delay.
C2_Witness ==
    /\ trans.fromBy = "main_loop"
    /\ trans.from = 100
    /\ trans.to = 50
    /\ trans.heldMs = 1000

\* C3: HAL initialisation, clock configuration, GPIO configuration, timer
\* configuration and PWM start happen once each and in this order; the loop
\* writes the compare register only after PWM start, and no initialisation
\* step runs again once the loop has begun.
C3_StartupOrder ==
    /\ IsPrefix(Calls(initLog),
                << "HAL_Init", "SystemClock_Config", "MX_GPIO_Init",
                   "MX_TIM3_Init", "HAL_TIM_PWM_Start" >>)
    /\ \A l \in InitLabels : Occurrences(initLog, l) <= 1
    /\ (pc \in LoopLabels \/ "main_loop" \in ccrWriters) =>
            /\ Len(Calls(initLog)) = 5
            /\ \A l \in InitLabels : Occurrences(initLog, l) = 1
            /\ tim3.cc1e
            /\ pc \in LoopLabels
    /\ pc \in InitLabels => "main_loop" \notin ccrWriters /\ obsLog = << >>

\* C3 witness: the first write of the loop has been made, after the five
\* steps.
C3_Witness ==
    /\ pc = "HAL_Delay_MIN"
    /\ "main_loop" \in ccrWriters
    /\ Len(Calls(initLog)) = 5
    /\ obsLog = << >>

\* C4: each value the loop writes, divided by the 1 MHz tick rate, is the
\* documented pulse width (50 -> 1000 us, 75 -> 1500 us, 100 -> 2000 us), and
\* 75 gives a 7.5 % duty cycle of the 20 ms frame.
C4_DocumentedPulseWidth ==
    lastBy = "main_loop" =>
        /\ TickRateHz = 1000000
        /\ PulseUs(ccr1) = (CASE ccr1 = 50  -> 1000
                              [] ccr1 = 75  -> 1500
                              [] ccr1 = 100 -> 2000
                              [] OTHER      -> -1)
        /\ ccr1 = 75 => DutyPermille(ccr1) = 75

\* C5: from timer initialisation on, the clock tree gives an 84 MHz system
\* clock and an 84 MHz timer clock, the prescaler divides by 84, the frame
\* has 20000 ticks, one frame lasts 20 ms and the PWM frequency is exactly
\* 50 Hz.
C5_FramePeriod ==
    tim3.baseInit =>
        /\ SysClkHz = 84000000
        /\ TimClkHz = 84000000
        /\ tim3.psc + 1 = 84
        /\ TimClkHz % (tim3.psc + 1) = 0
        /\ TickRateHz = 1000000
        /\ tim3.arr + 1 = 20000
        /\ FramePeriodUs = 20000
        /\ TickRateHz % (tim3.arr + 1) = 0
        /\ PwmFreqHz = 50

\* C5 witness: the timer is initialised and the loop has been running.
C5_Witness ==
    /\ tim3.baseInit
    /\ pc = "SET_COMPARE_MIN"
    /\ Len(obsLog) >= 3

\* C6: main never returns and never halts, and each of the three positions
\* is written to the compare register again and again.
C6_NeverTerminates ==
    /\ [](pc \in InitLabels \cup LoopLabels)
    /\ []<>(pc = "HAL_Delay_MIN" /\ ccr1 = 50)
    /\ []<>(pc = "HAL_Delay_CENTER" /\ ccr1 = 75)
    /\ []<>(pc = "HAL_Delay_MAX" /\ ccr1 = 100)

\* C6 witness: the loop body has been run through and starts again.
C6_Witness ==
    /\ pc = "SET_COMPARE_MIN"
    /\ ccr1 = 100
    /\ lastBy = "main_loop"
    /\ held = 1000

\* C7 as stated: with compare 0 the output is low at every counter value and
\* with any compare value >= the reload value it is high at every counter
\* value.
C7_Original ==
    tim3.cc1e =>
        /\ ccr1 = 0 => out = 0
        /\ ccr1 >= tim3.arr => out = 1

\* C7 amended: the output is high exactly while counter < compare; with
\* compare 0 it is low at every counter value, and with any compare value
\* above the reload value (> period, that is >= period + 1) it is high at
\* every counter value.
C7_Amended ==
    tim3.cc1e =>
        /\ cnt \in 0 .. tim3.arr
        /\ (out = 1) <=> (cnt < ccr1)
        /\ ccr1 = 0 => out = 0
        /\ ccr1 > tim3.arr => out = 1

\* C7 witness: compare is one above the reload value and the counter is at
\* the last value of the frame.
C7_Witness ==
    /\ tim3.cc1e
    /\ ccr1 = tim3.arr + 1
    /\ cnt = tim3.arr
    /\ out = 1

\* C8 as stated: only the control loop ever writes the compare register, and
\* no software reads it.
C8_Original ==
    /\ ccrWriters \subseteq {"main_loop"}
    /\ ccrReaders = {}

\* C8 amended: the compare register is written by the control loop and,
\* once, before PWM output is started, by the channel configuration of
\* MX_TIM3_Init, which stores the starting value 75; every write made after
\* PWM start is the loop's, and no software reads the register.
C8_Amended ==
    /\ ccrWriters \subseteq {"MX_TIM3_Init", "main_loop"}
    /\ ccrReaders = {}
    /\ lastBy \in {"reset", "MX_TIM3_Init", "main_loop"}
    /\ lastBy = "reset" => pc \in InitLabels /\ ~tim3.chInit /\ ccrWriters = {}
    /\ lastBy = "MX_TIM3_Init" =>
            /\ ccr1 = 75
            /\ pc \in {"HAL_TIM_PWM_Start", "SET_COMPARE_MIN"}
            /\ trans.fromBy = "none"
    /\ trans.fromBy # "none" => lastBy = "main_loop"

\* C8 witness: both writers have written.
C8_Witness ==
    /\ ccrWriters = {"MX_TIM3_Init", "main_loop"}
    /\ trans.fromBy = "MX_TIM3_Init"

\* the steps main takes before the loop when every call succeeds
AllSuccessSteps ==
    << "HAL_Init", "PWR_CLK_ENABLE", "HAL_RCC_OscConfig", "HAL_RCC_ClockConfig",
       "GPIOA_CLK_ENABLE", "HAL_GPIO_Init", "TIM3_CLK_ENABLE", "HAL_TIM_PWM_Init",
       "HAL_TIM_PWM_ConfigChannel", "HAL_TIM_PWM_Start" >>

\* C9: whatever status the five configuration calls return, main takes the
\* steps of the all-success run: no call is made twice, no fault or halt
\* state is reached, PWM is started and the loop writes 50, 75, 100.
C9_StatusDiscarded ==
    /\ pc \in InitLabels \cup LoopLabels
    /\ \A c \in StatusCalls :
            /\ (status[c] = "not_called") <=> (Occurrences(initLog, c) = 0)
            /\ status[c] # "not_called" => pc # c
    /\ pc \in InitLabels =>
            /\ Len(initLog) < Len(AllSuccessSteps)
            /\ initLog = SubSeq(AllSuccessSteps, 1, Len(initLog))
            /\ pc = AllSuccessSteps[Len(initLog) + 1]
    /\ pc \in LoopLabels =>
            /\ initLog = AllSuccessSteps
            /\ tim3.cc1e
            /\ pc = "HAL_Delay_MIN" => ccr1 = 50
            /\ pc = "HAL_Delay_CENTER" => ccr1 = 75
            /\ pc = "HAL_Delay_MAX" => ccr1 = 100

\* C9 witness: every one of the five calls has failed and the loop is
\* running through its positions.
C9_Witness ==
    /\ \A c \in StatusCalls : status[c] \in {"HAL_ERROR", "HAL_BUSY", "HAL_TIMEOUT"}
    /\ pc = "HAL_Delay_MAX"
    /\ ccr1 = 100
    /\ Len(obsLog) >= 3

\* C10: the GPIOA clock gate is on when PA6 is configured, the TIM3 clock
\* gate is on when the time base and the channel are configured, and when
\* PWM output is on the pin is routed to TIM3 and both gates are on.
C10_EnableOrdering ==
    /\ pa6 # Pa6Reset => rcc.gpioaClk
    /\ (tim3.baseInit \/ tim3.chInit) => rcc.tim3Clk
    /\ (tim3.cc1e \/ out = 1) =>
            /\ pa6.mode = "AF_PP"
            /\ pa6.alternate = "AF2_TIM3"
            /\ rcc.gpioaClk
            /\ rcc.tim3Clk
            /\ tim3.baseInit
            /\ tim3.chInit

\* C10 witness: PWM output has just been started on the routed pin.
C10_Witness ==
    /\ tim3.cc1e
    /\ out = 1
    /\ pa6.alternate = "AF2_TIM3"
    /\ pc = "SET_COMPARE_MIN"
    /\ lastBy = "MX_TIM3_Init"

====
